---------------------------- MODULE Spec2Model ----------------------------
(***************************************************************************)
(* Model of the PDF -> PPTX converter component (src/main.tsx, App).       *)
(*                                                                         *)
(* The React state of App (file, isGenerating, progress, pptxBlob, error), *)
(* the locals of one run of convertPdfToPptx (pdf, pptx, numPages, i, ...) *)
(* and the position of that run (pc) are the variables.  Every await of    *)
(* convertPdfToPptx is a suspension point: the UI handlers                 *)
(* (handleFileChange, onDrop, the reset button, downloadPptx) can run only *)
(* while the run is suspended at an await or while no run is active.       *)
(***************************************************************************)
EXTENDS Integers, Sequences, FiniteSets, TLC

(***************************************************************************)
(* Bounds of the model.                                                    *)
(***************************************************************************)
MaxPages == 3

WidePages == 40

(***************************************************************************)
(* Program constants.                                                      *)
(***************************************************************************)
Scale == 2

PointsPerInch == 72

(***************************************************************************)
(* Optional values: null is the empty sequence, a value x is <<x>>.        *)
(***************************************************************************)
Null == <<>>

Some(x) == <<x>>

Val(o) == o[1]

(***************************************************************************)
(* Strings are sequences of one-character strings, so that                 *)
(* String.prototype.replace can be computed.                               *)
(***************************************************************************)
Sub(s, from, to) == SubSeq(s, from, to)

OccursAt(s, pat, k) ==
    /\ k >= 1
    /\ k + Len(pat) - 1 <= Len(s)
    /\ Sub(s, k, k + Len(pat) - 1) = pat

\* index of the first occurrence of pat in s, 0 when there is none
IndexOf(s, pat) ==
    IF \E k \in 1..Len(s) : OccursAt(s, pat, k)
    THEN CHOOSE k \in 1..Len(s) :
            /\ OccursAt(s, pat, k)
            /\ \A j \in 1..(k - 1) : ~OccursAt(s, pat, j)
    ELSE 0

\* s.replace(pat, rep) with a string pattern: only the first occurrence
ReplaceFirst(s, pat, rep) ==
    LET k == IndexOf(s, pat) IN
    IF k = 0 THEN s
    ELSE Sub(s, 1, k - 1) \o rep \o Sub(s, k + Len(pat), Len(s))

DotPdf == <<".", "p", "d", "f">>

DotPptx == <<".", "p", "p", "t", "x">>

DownloadName(name) == ReplaceFirst(name, DotPdf, DotPptx)

(***************************************************************************)
(* Lengths in inches are fractions num/den, kept as the code forms them.   *)
(***************************************************************************)
Frac(n, d) == [num |-> n, den |-> d]

FracEq(a, b) == a.num * b.den = b.num * a.den

(***************************************************************************)
(* IEEE-754 double arithmetic, as far as Math.round((i / numPages) * 100)  *)
(* needs it.  A positive double is [h, m, l, e]: its 53-bit mantissa is    *)
(* h * 2^36 + m * 2^18 + l (2^16 <= h < 2^17, m and l below 2^18) and e is *)
(* the binary exponent of the leading mantissa bit, so that the value is   *)
(* mantissa * 2^(e - 52).                                                  *)
(***************************************************************************)
RECURSIVE Pow2(_)
Pow2(k) == IF k = 0 THEN 1 ELSE 2 * Pow2(k - 1)

Limb == Pow2(18)

RECURSIVE LeadZeros(_, _)
\* number of zero bits after the binary point before the first one bit of r/n
LeadZeros(r, n) == IF 2 * r >= n THEN 0 ELSE 1 + LeadZeros(2 * r, n)

\* round to nearest, ties to even: the 53 bits h:m:l are followed by the bit
\* guard, and sticky tells whether a non-zero bit follows guard
RoundToDouble(h, m, l, guard, sticky, e) ==
    LET up == IF guard = 1 /\ (sticky \/ (l % 2) = 1) THEN 1 ELSE 0
        l1 == l + up
        m1 == m + (l1 \div Limb)
        h1 == h + (m1 \div Limb)
    IN IF h1 = Pow2(17)
       THEN [h |-> Pow2(16), m |-> 0, l |-> 0, e |-> e + 1]
       ELSE [h |-> h1, m |-> m1 % Limb, l |-> l1 % Limb, e |-> e]

\* the double nearest to a/b, for integers 0 < a < b: 54 quotient bits from
\* the first one bit on, by long division in three limbs, then rounded
DoubleDiv(a, b) ==
    LET z == LeadZeros(a, b)
        r0 == a * Pow2(z)
        q1 == (r0 * Limb) \div b
        r1 == (r0 * Limb) % b
        q2 == (r1 * Limb) \div b
        r2 == (r1 * Limb) % b
        q3 == (r2 * Limb) \div b
        r3 == (r2 * Limb) % b
    IN RoundToDouble(q1 \div 2,
                     ((q1 % 2) * Pow2(17)) + (q2 \div 2),
                     ((q2 % 2) * Pow2(17)) + (q3 \div 2),
                     q3 % 2, r3 # 0, -(z + 1))

\* the double nearest to x * 100: the exact product has 59 or 60 bits
DoubleTimes100(x) ==
    LET pl == x.l * 100
        pm == (x.m * 100) + (pl \div Limb)
        top == (x.h * 100) + (pm \div Limb)
        low == pl % Limb
        mid == pm % Limb
        s == IF top >= Pow2(23) THEN 7 ELSE 6
    IN RoundToDouble(top \div Pow2(s),
                     ((top % Pow2(s)) * Pow2(18 - s)) + (mid \div Pow2(s)),
                     ((mid % Pow2(s)) * Pow2(18 - s)) + (low \div Pow2(s)),
                     (low \div Pow2(s - 1)) % 2,
                     (low % Pow2(s - 1)) # 0,
                     x.e + s)

\* Math.round(x) = floor(x + 0.5), for a positive double x below 2^16
MathRound(x) ==
    IF x.e < -1 THEN 0
    ELSE IF x.e = -1 THEN 1
    ELSE (x.h \div Pow2(16 - x.e)) + ((x.h \div Pow2(15 - x.e)) % 2)

One == [h |-> Pow2(16), m |-> 0, l |-> 0, e |-> 0]

\* Math.round((i / numPages) * 100), 1 <= i <= numPages
Percent(i, n) ==
    MathRound(DoubleTimes100(IF i = n THEN One ELSE DoubleDiv(i, n)))

\* round(100 * i / n) in exact arithmetic, halves up
RoundExact(i, n) == (200 * i + n) \div (2 * n)

(***************************************************************************)
(* Inputs: files the user can select or drop.                              *)
(***************************************************************************)
PdfType == "application/pdf"

OtherType == "text/plain"

\* US Letter, portrait: 612 x 792 points
Letter == [w |-> Frac(612, 1), h |-> Frac(792, 1)]

\* a landscape page whose sides are not whole points: 841.75 x 595.25
Fractional == [w |-> Frac(3367, 4), h |-> Frac(2381, 4)]

\* intrinsic page sizes in points
PageSizes == {Letter, Fractional}

\* the page sequences of the decodable documents, 0..MaxPages pages
Documents == UNION {[1..n -> PageSizes] : n \in 0..MaxPages}

\* a byte buffer either decodes to a page sequence or does not decode
Buffers ==
    {[ok |-> TRUE, pages |-> d] : d \in Documents}
        \cup {[ok |-> FALSE, pages |-> <<>>]}

Names ==
    { <<"a", ".", "p", "d", "f">>,
      <<"A", ".", "P", "D", "F">>,
      <<"a", ".", "p", "d", "f", ".", "p", "d", "f">> }

PlainName == <<"a", ".", "p", "d", "f">>

OnePage == [ok |-> TRUE, pages |-> <<Letter>>]

\* file names vary on one buffer and buffers vary on one file name: the
\* program never combines a file's name with its content
Files ==
    {[name |-> n, type |-> PdfType, buf |-> OnePage] : n \in Names}
    \cup {[name |-> PlainName, type |-> PdfType, buf |-> b] : b \in Buffers}
    \cup {[name |-> PlainName, type |-> OtherType,
           buf |-> [ok |-> FALSE, pages |-> <<>>]]}

\* e.target.files?.[0]: a file or undefined
Selections == {Some(f) : f \in Files} \cup {Null}

(***************************************************************************)
(* The libraries, as far as the program uses them.                         *)
(***************************************************************************)
\* a viewport rounded up to whole pixels
GetViewportCeil(page) ==
    [width |-> Frac((page.w.num * Scale + page.w.den - 1) \div page.w.den, 1),
     height |-> Frac((page.h.num * Scale + page.h.den - 1) \div page.h.den, 1)]

\* page.getViewport({ scale: 2.0 }): the page size times the scale
GetViewport(page) ==
    [width |-> Frac(page.w.num * Scale, page.w.den),
     height |-> Frac(page.h.num * Scale, page.h.den)]

\* canvas.width = x: the attribute is an unsigned long, the fraction is cut
ToUnsignedLong(x) == x.num \div x.den

\* viewport.width / (72 * 2.0)
Inches(pixels) == Frac(pixels.num, pixels.den * PointsPerInch * Scale)

\* new pptxgen(): the library's default layout, no slides
NewPptx ==
    [layout |-> [name |-> "LAYOUT_16x9", width |-> Frac(10, 1),
                 height |-> Frac(45, 8)],
     slides |-> <<>>]

\* pptx.defineLayout({ name: 'PDF_SIZE', width, height }); pptx.layout = 'PDF_SIZE'
DefineLayout(deck, w, h) ==
    [deck EXCEPT !.layout = [name |-> "PDF_SIZE", width |-> w, height |-> h]]

\* a slide put in front of the deck instead of at its end
AddSlideInFront(deck) == [deck EXCEPT !.slides = <<[images |-> <<>>]>> \o @]

\* pptx.addSlide(): a new empty slide at the end of the deck
AddSlide(deck) == [deck EXCEPT !.slides = Append(@, [images |-> <<>>])]

\* an image stretched to the canvas size of the deck instead of w by h
AddImageCanvasSized(deck, data, w, h) ==
    [deck EXCEPT !.slides[Len(deck.slides)].images =
        Append(@, [data |-> data, x |-> 0, y |-> 0, w |-> deck.layout.width,
                   h |-> deck.layout.height])]

\* slide.addImage({ data, x: 0, y: 0, w, h }) on the slide just added
AddImage(deck, data, w, h) ==
    [deck EXCEPT !.slides[Len(deck.slides)].images =
        Append(@, [data |-> data, x |-> 0, y |-> 0, w |-> w, h |-> h])]

(***************************************************************************)
(* State.                                                                  *)
(***************************************************************************)
VARIABLES
    file,            \* useState<File | null>
    isGenerating,    \* useState(false)
    progress,        \* useState(0)
    pptxBlob,        \* useState<Blob | null>
    error,           \* useState<string | null>
    download,        \* a.download of the last anchor clicked by downloadPptx
    pc,              \* position of the run of convertPdfToPptx
    arrayBuffer,     \* locals of that run
    pdf,
    pptx,
    numPages,
    i,
    viewport,
    canvas,
    imgData,
    widthInInches,
    heightInInches,
    err,             \* the value caught by the catch clause
    calls,           \* the calls the run has made, in order
    abandoned        \* the selection was replaced or cleared between two
                     \* page cycles of the run

ui == <<file, isGenerating, progress, pptxBlob, error, download>>

locals == <<arrayBuffer, pdf, pptx, numPages, i, viewport, canvas, imgData,
            widthInInches, heightInInches>>

vars == <<ui, pc, locals, err, calls, abandoned>>

\* messages of setError
PdfOnly == "PDF_ONLY"

ConvertFailed == "CONVERT_FAILED"

\* the run is suspended at an await
Awaiting == {"arrayBuffer", "getDocument", "getPage", "render", "write"}

\* no run is active
Returned == {"idle", "done"}

\* event handlers run only while no run is executing synchronous code
HandlersCanRun == pc \in Awaiting \cup Returned

\* the run waits for the next page after the cycle of the page before it
BetweenCycles == pc = "getPage" /\ i > 1

Call(op, page, val) == [op |-> op, page |-> page, val |-> val]

NoViewport == [width |-> Frac(0, 1), height |-> Frac(0, 1)]

NoCanvas == [width |-> 0, height |-> 0, content |-> 0]

NoImage == [page |-> 0, width |-> 0, height |-> 0]

Init ==
    /\ file = Null
    /\ isGenerating = FALSE
    /\ progress = 0
    /\ pptxBlob = Null
    /\ error = Null
    /\ download = Null
    /\ pc = "idle"
    /\ arrayBuffer = Null
    /\ pdf = Null
    /\ pptx = Null
    /\ numPages = 0
    /\ i = 0
    /\ viewport = NoViewport
    /\ canvas = NoCanvas
    /\ imgData = NoImage
    /\ widthInInches = Frac(0, 1)
    /\ heightInInches = Frac(0, 1)
    /\ err = Null
    /\ calls = <<>>
    /\ abandoned = FALSE

(***************************************************************************)
(* Event handlers of the component.                                        *)
(***************************************************************************)
\* the body shared by handleFileChange and onDrop
AcceptFile(selected) ==
    IF selected # Null /\ Val(selected).type = PdfType
    THEN /\ file' = selected
         /\ error' = Null
         /\ pptxBlob' = Null
         /\ progress' = 0
         /\ abandoned' = (abandoned \/ BetweenCycles)
         /\ UNCHANGED <<isGenerating, download>>
    ELSE /\ error' = Some(PdfOnly)
         /\ UNCHANGED <<file, isGenerating, progress, pptxBlob, download,
                        abandoned>>

handleFileChange ==
    /\ HandlersCanRun
    /\ \E selectedFile \in Selections : AcceptFile(selectedFile)
    /\ UNCHANGED <<pc, locals, err, calls>>

onDrop ==
    /\ HandlersCanRun
    /\ \E droppedFile \in Selections : AcceptFile(droppedFile)
    /\ UNCHANGED <<pc, locals, err, calls>>

\* the "Reset System" button, rendered while error is set
ResetSystem ==
    /\ HandlersCanRun
    /\ error # Null
    /\ error' = Null
    /\ file' = Null
    /\ abandoned' = (abandoned \/ BetweenCycles)
    /\ UNCHANGED <<isGenerating, progress, pptxBlob, download, pc, locals,
                   err, calls>>

\* the "Download PPTX" button, rendered while pptxBlob is set
downloadPptx ==
    /\ HandlersCanRun
    /\ pptxBlob # Null
    /\ IF file = Null
       THEN UNCHANGED download
       ELSE download' = Some(DownloadName(Val(file).name))
    /\ UNCHANGED <<file, isGenerating, progress, pptxBlob, error, pc, locals,
                   err, calls, abandoned>>

(***************************************************************************)
(* convertPdfToPptx, one action per await and per call that can throw.     *)
(***************************************************************************)
\* a catch clause that serializes the slides appended so far
CatchAndSerialize(e) ==
    /\ err' = Some(e)
    /\ IF pptx = Null
       THEN /\ error' = Some(ConvertFailed)
            /\ isGenerating' = FALSE
            /\ pc' = "done"
            /\ calls' = Append(calls, Call("setError", 0, 0))
            /\ UNCHANGED <<file, progress, pptxBlob, download>>
       ELSE /\ pc' = "write"
            /\ calls' = Append(calls, Call("write", 0, 0))
            /\ UNCHANGED ui
    /\ UNCHANGED <<locals, abandoned>>

\* the catch clause: console.error(err); setError(...); setIsGenerating(false)
Catch(e) ==
    /\ err' = Some(e)
    /\ error' = Some(ConvertFailed)
    /\ isGenerating' = FALSE
    /\ pc' = "done"
    /\ calls' = Append(calls, Call("setError", 0, 0))
    /\ UNCHANGED <<file, progress, pptxBlob, download, locals, abandoned>>

\* the loop test i <= numPages with the call that follows it:
\* pdf.getPage(i) in the loop, pptx.write(...) after it
LoopTest(k, n, log) ==
    IF k <= n
    THEN /\ pc' = "getPage"
         /\ calls' = Append(log, Call("getPage", k, 0))
    ELSE /\ pc' = "write"
         /\ calls' = Append(log, Call("write", 0, 0))

\* a run that creates the deck before the document is loaded
ClickConvertDeckFirst ==
    /\ HandlersCanRun
    /\ file # Null /\ ~isGenerating /\ pptxBlob = Null
    /\ isGenerating' = TRUE
    /\ progress' = 0
    /\ error' = Null
    /\ arrayBuffer' = Some(Val(file).buf)
    /\ pc' = "arrayBuffer"
    /\ pdf' = Null
    /\ pptx' = Some(NewPptx)
    /\ numPages' = 0
    /\ i' = 0
    /\ viewport' = NoViewport
    /\ canvas' = NoCanvas
    /\ imgData' = NoImage
    /\ widthInInches' = Frac(0, 1)
    /\ heightInInches' = Frac(0, 1)
    /\ err' = Null
    /\ calls' = <<Call("arrayBuffer", 0, 0)>>
    /\ abandoned' = FALSE
    /\ UNCHANGED <<file, pptxBlob, download>>

\* the "Initialize Conversion" button, rendered while a file is selected, no
\* run is active and no blob is stored; runs up to the first await
ClickConvert ==
    /\ HandlersCanRun
    /\ file # Null /\ ~isGenerating /\ pptxBlob = Null
    /\ isGenerating' = TRUE
    /\ progress' = 0
    /\ error' = Null
    /\ arrayBuffer' = Some(Val(file).buf)
    /\ pc' = "arrayBuffer"
    /\ pdf' = Null
    /\ pptx' = Null
    /\ numPages' = 0
    /\ i' = 0
    /\ viewport' = NoViewport
    /\ canvas' = NoCanvas
    /\ imgData' = NoImage
    /\ widthInInches' = Frac(0, 1)
    /\ heightInInches' = Frac(0, 1)
    /\ err' = Null
    /\ calls' = <<Call("arrayBuffer", 0, 0)>>
    /\ abandoned' = FALSE
    /\ UNCHANGED <<file, pptxBlob, download>>

\* file.arrayBuffer() resolves; pdfjs.getDocument is called
ArrayBufferOk ==
    /\ pc = "arrayBuffer"
    /\ pc' = "getDocument"
    /\ calls' = Append(calls, Call("getDocument", 0, 0))
    /\ UNCHANGED <<ui, locals, err, abandoned>>

ArrayBufferFail ==
    /\ pc = "arrayBuffer"
    /\ Catch("arrayBuffer")

\* getDocument resolves: new pptxgen(), numPages = pdf.numPages, i = 1
GetDocumentOk ==
    /\ pc = "getDocument"
    /\ Val(arrayBuffer).ok
    /\ pdf' = Some(Val(arrayBuffer).pages)
    /\ pptx' = Some(NewPptx)
    /\ numPages' = Len(Val(arrayBuffer).pages)
    /\ i' = 1
    /\ LoopTest(1, Len(Val(arrayBuffer).pages),
                Append(calls, Call("new pptxgen", 0, 0)))
    /\ UNCHANGED <<ui, arrayBuffer, viewport, canvas, imgData, widthInInches,
                   heightInInches, err, abandoned>>

\* getDocument rejects: the buffer does not decode, or the worker fails
GetDocumentFail ==
    /\ pc = "getDocument"
    /\ Catch("getDocument")

\* getPage resolves; viewport, canvas and a 2d context; page.render is called
GetPageOk ==
    /\ pc = "getPage"
    /\ LET vp == GetViewport(Val(pdf)[i]) IN
        /\ viewport' = vp
        /\ canvas' = [width |-> ToUnsignedLong(vp.width),
                      height |-> ToUnsignedLong(vp.height), content |-> 0]
    /\ pc' = "render"
    /\ calls' = Append(calls, Call("render", i, 0))
    /\ UNCHANGED <<ui, arrayBuffer, pdf, pptx, numPages, i, imgData,
                   widthInInches, heightInInches, err, abandoned>>

GetPageFail ==
    /\ pc = "getPage"
    /\ Catch("getPage")

\* getPage resolves but canvas.getContext('2d') returns null
GetContextNull ==
    /\ pc = "getPage"
    /\ Catch("Canvas context could not be created")

\* render resolves: the canvas holds the picture of page i
RenderOk ==
    /\ pc = "render"
    /\ canvas' = [canvas EXCEPT !.content = i]
    /\ pc' = "toDataURL"
    /\ UNCHANGED <<ui, arrayBuffer, pdf, pptx, numPages, i, viewport, imgData,
                   widthInInches, heightInInches, err, calls, abandoned>>

RenderFail ==
    /\ pc = "render"
    /\ Catch("render")

\* canvas.toDataURL and the size of the page in inches
ToDataURLOk ==
    /\ pc = "toDataURL"
    /\ imgData' = [page |-> canvas.content, width |-> canvas.width,
                   height |-> canvas.height]
    /\ widthInInches' = Inches(viewport.width)
    /\ heightInInches' = Inches(viewport.height)
    /\ pc' = "layout"
    /\ calls' = Append(calls, Call("toDataURL", i, 0))
    /\ UNCHANGED <<ui, arrayBuffer, pdf, pptx, numPages, i, viewport, canvas,
                   err, abandoned>>

ToDataURLFail ==
    /\ pc = "toDataURL"
    /\ Catch("toDataURL")

\* the layout defined anew in the cycle of every page
LayoutEveryPage ==
    /\ pc = "layout"
    /\ pptx' = Some(DefineLayout(Val(pptx), widthInInches, heightInInches))
    /\ calls' = Append(calls, Call("defineLayout", i, 0))
    /\ pc' = "addSlide"
    /\ UNCHANGED <<ui, arrayBuffer, pdf, numPages, i, viewport, canvas,
                   imgData, widthInInches, heightInInches, err, abandoned>>

\* if (i === 1) { defineLayout; layout = 'PDF_SIZE' }
Layout ==
    /\ pc = "layout"
    /\ IF i = 1
       THEN /\ pptx' = Some(DefineLayout(Val(pptx), widthInInches,
                                         heightInInches))
            /\ calls' = Append(calls, Call("defineLayout", i, 0))
       ELSE UNCHANGED <<pptx, calls>>
    /\ pc' = "addSlide"
    /\ UNCHANGED <<ui, arrayBuffer, pdf, numPages, i, viewport, canvas,
                   imgData, widthInInches, heightInInches, err, abandoned>>

\* pptx.addSlide() and slide.addImage(...)
AddSlideOk ==
    /\ pc = "addSlide"
    /\ pptx' = Some(AddImage(AddSlide(Val(pptx)), imgData, widthInInches,
                             heightInInches))
    /\ pc' = "setProgress"
    /\ calls' = Append(calls, Call("addSlide", i, 0))
    /\ UNCHANGED <<ui, arrayBuffer, pdf, numPages, i, viewport, canvas,
                   imgData, widthInInches, heightInInches, err, abandoned>>

AddSlideFail ==
    /\ pc = "addSlide"
    /\ Catch("addSlide")

\* progress reported only after the last page
SetProgressAtEndOnly ==
    /\ pc = "setProgress"
    /\ progress' = IF i = numPages THEN Percent(i, numPages) ELSE progress
    /\ i' = i + 1
    /\ LoopTest(i + 1, numPages,
                IF i = numPages
                THEN Append(calls, Call("setProgress", i, Percent(i, numPages)))
                ELSE calls)
    /\ UNCHANGED <<file, isGenerating, pptxBlob, error, download, arrayBuffer,
                   pdf, pptx, numPages, viewport, canvas, imgData,
                   widthInInches, heightInInches, err, abandoned>>

\* setProgress(Math.round((i / numPages) * 100)); i++; the loop test
SetProgressOk ==
    /\ pc = "setProgress"
    /\ progress' = Percent(i, numPages)
    /\ i' = i + 1
    /\ LoopTest(i + 1, numPages,
                Append(calls, Call("setProgress", i, Percent(i, numPages))))
    /\ UNCHANGED <<file, isGenerating, pptxBlob, error, download, arrayBuffer,
                   pdf, pptx, numPages, viewport, canvas, imgData,
                   widthInInches, heightInInches, err, abandoned>>

\* the state setter throws
SetProgressFail ==
    /\ pc = "setProgress"
    /\ Catch("setProgress")

\* a write that stores the blob and then runs the catch clause as well
WriteOkThenCatch ==
    /\ pc = "write"
    /\ pptxBlob' = Some(Val(pptx))
    /\ err' = Some("write")
    /\ error' = Some(ConvertFailed)
    /\ isGenerating' = FALSE
    /\ pc' = "done"
    /\ calls' = calls \o <<Call("setPptxBlob", 0, 0), Call("setError", 0, 0)>>
    /\ UNCHANGED <<file, progress, download, locals, abandoned>>

\* write resolves: setPptxBlob(output); setIsGenerating(false)
WriteOk ==
    /\ pc = "write"
    /\ pptxBlob' = Some(Val(pptx))
    /\ isGenerating' = FALSE
    /\ pc' = "done"
    /\ calls' = Append(calls, Call("setPptxBlob", 0, 0))
    /\ UNCHANGED <<file, progress, error, download, locals, err, abandoned>>

WriteFail ==
    /\ pc = "write"
    /\ Catch("write")

Next ==
    \/ handleFileChange
    \/ onDrop
    \/ ResetSystem
    \/ downloadPptx
    \/ ClickConvert
    \/ ArrayBufferOk
    \/ ArrayBufferFail
    \/ GetDocumentOk
    \/ GetDocumentFail
    \/ GetPageOk
    \/ GetPageFail
    \/ GetContextNull
    \/ RenderOk
    \/ RenderFail
    \/ ToDataURLOk
    \/ ToDataURLFail
    \/ Layout
    \/ AddSlideOk
    \/ AddSlideFail
    \/ SetProgressOk
    \/ SetProgressFail
    \/ WriteOk
    \/ WriteFail

Spec == Init /\ [][Next]_vars

TypeOK ==
    /\ pc \in Awaiting \cup Returned
              \cup {"toDataURL", "layout", "addSlide", "setProgress"}
    /\ isGenerating \in BOOLEAN
    /\ progress \in 0..100
    /\ (pc \notin Returned) => isGenerating

(***************************************************************************)
(* A second specification for the progress arithmetic on long documents:   *)
(* a PDF of 1..WidePages equal pages is selected and converted without     *)
(* failures.                                                               *)
(***************************************************************************)
WideFile(n) ==
    [name |-> PlainName, type |-> PdfType,
     buf |-> [ok |-> TRUE, pages |-> [k \in 1..n |-> Letter]]]

InitWide ==
    /\ file \in {Some(WideFile(n)) : n \in 1..WidePages}
    /\ isGenerating = FALSE
    /\ progress = 0
    /\ pptxBlob = Null
    /\ error = Null
    /\ download = Null
    /\ pc = "idle"
    /\ arrayBuffer = Null
    /\ pdf = Null
    /\ pptx = Null
    /\ numPages = 0
    /\ i = 0
    /\ viewport = NoViewport
    /\ canvas = NoCanvas
    /\ imgData = NoImage
    /\ widthInInches = Frac(0, 1)
    /\ heightInInches = Frac(0, 1)
    /\ err = Null
    /\ calls = <<>>
    /\ abandoned = FALSE

NextWide ==
    \/ ClickConvert
    \/ ArrayBufferOk
    \/ GetDocumentOk
    \/ GetPageOk
    \/ RenderOk
    \/ ToDataURLOk
    \/ Layout
    \/ AddSlideOk
    \/ SetProgressOk
    \/ WriteOk

SpecWide == InitWide /\ [][NextWide]_vars

(***************************************************************************)
(* Derived quantities of a run.                                            *)
(***************************************************************************)
\* the slides of the deck of the run
Slides == IF pptx = Null THEN <<>> ELSE Val(pptx).slides

IsProgress(c) == c.op = "setProgress"

\* the percentages emitted by the page loop, in order
Emitted == [k \in 1..Len(SelectSeq(calls, IsProgress)) |->
               SelectSeq(calls, IsProgress)[k].val]

Made(op) == \E k \in 1..Len(calls) : calls[k].op = op

\* the run returned with a blob / through the catch clause
Completed == pc = "done" /\ err = Null

Failed == pc = "done" /\ err # Null

\* the pages of the document of the run, once decoded
Pages == IF pdf = Null THEN <<>> ELSE Val(pdf)

(***************************************************************************)
(* Claims.                                                                 *)
(***************************************************************************)
\* the image put on a slide is the picture of page k at page k's viewport
IsImageOfPage(img, k) ==
    /\ img.data.page = k
    /\ img.data.width = ToUnsignedLong(GetViewport(Pages[k]).width)
    /\ img.data.height = ToUnsignedLong(GetViewport(Pages[k]).height)

\* C1: when the conversion of a document of N >= 1 pages reaches the
\* serializer or has succeeded, the deck holds exactly N slides and slide k
\* carries exactly one image, the picture of page k; the stored blob is
\* that deck.
C1_OneSlidePerPageInOrder ==
    ((pc = "write" \/ Completed) /\ Len(Pages) >= 1) =>
        /\ numPages = Len(Val(arrayBuffer).pages)
        /\ Pages = Val(arrayBuffer).pages
        /\ Len(Slides) = Len(Pages)
        /\ \A k \in 1..Len(Slides) :
            /\ Len(Slides[k].images) = 1
            /\ IsImageOfPage(Slides[k].images[1], k)
        /\ (pptxBlob # Null => Val(pptxBlob) = Val(pptx))

\* a stored deck of two or more pages, not all of one size
C1_Witness ==
    /\ Completed
    /\ pptxBlob # Null
    /\ Len(Pages) >= 2
    /\ Pages[1] # Pages[2]

SameSize(aw, ah, bw, bh) == FracEq(aw, bw) /\ FracEq(ah, bh)

NonDecreasing(seq) ==
    \A k \in 1..(Len(seq) - 1) : seq[k] <= seq[k + 1]

\* C3 as stated: the percentages emitted by the page loop of a conversion
\* of N pages are round(100 * k / N) for k = 1, 2, ..., never decrease and
\* lie in 0..100; a successful conversion has emitted exactly N of them,
\* the last being 100.
C3_ProgressIsRoundedShare ==
    /\ \A k \in 1..Len(Emitted) : Emitted[k] = RoundExact(k, numPages)
    /\ \A k \in 1..Len(Emitted) : Emitted[k] \in 0..100
    /\ NonDecreasing(Emitted)
    /\ (Completed /\ Len(Pages) >= 1) =>
           /\ Len(Emitted) = Len(Pages)
           /\ Emitted[Len(Emitted)] = 100

\* C4 as stated: the conversion of a document that decodes to zero pages
\* ends in the failure outcome, and no blob of a deck without slides is
\* ever stored.
C4_ZeroPagesFail ==
    /\ (pc = "done" /\ pdf # Null /\ Len(Pages) = 0) => Failed
    /\ pptxBlob # Null => Len(Val(pptxBlob).slides) >= 1

\* the values thrown by the steps of a page cycle
PageCycleErrors ==
    {"getPage", "Canvas context could not be created", "render", "toDataURL",
     "addSlide"}

PageFailure == err # Null /\ Val(err) \in PageCycleErrors

\* C5: once a step of the cycle of page k has failed, the run has returned
\* through the catch clause: the error message is set at that moment, no
\* call names a page after k, the deck holds the k - 1 slides of the pages
\* before k, the serializer was never called, no blob is stored, and the
\* deck and the calls of the run never change again.
C5_PageFailureAborts ==
    /\ [](PageFailure =>
            /\ Failed
            /\ pptxBlob = Null
            /\ ~Made("write") /\ ~Made("setPptxBlob")
            /\ \A k \in 1..Len(calls) : calls[k].page <= i
            /\ Len(Slides) = i - 1
            /\ calls[Len(calls)].op = "setError")
    /\ [][/\ (err = Null /\ PageFailure') =>
                (error' = Some(ConvertFailed) /\ ~isGenerating')
          /\ (PageFailure /\ PageFailure') =>
                (pptx' = pptx /\ calls' = calls /\ pc' = pc)]_vars

\* a failure on a page after the first, one slide or more already appended
C5_Witness ==
    /\ PageFailure
    /\ i >= 2
    /\ i < numPages
    /\ Len(Slides) >= 1

\* C6: a buffer that does not decode leads from the idle state through
\* arrayBuffer and getDocument to the failure outcome and nowhere else:
\* no document, no deck, no page call, no progress event, no blob.
C6_DecodeFailure ==
    /\ (arrayBuffer # Null /\ ~Val(arrayBuffer).ok) =>
            /\ pc \in {"arrayBuffer", "getDocument", "done"}
            /\ pc = "done" => (Failed /\ Val(err) \in {"arrayBuffer", "getDocument"})
            /\ pdf = Null /\ pptx = Null
            /\ Emitted = <<>>
            /\ ~Made("getPage") /\ ~Made("render") /\ ~Made("write")
            /\ pptxBlob = Null
    /\ err = Some("getDocument") =>
            /\ Failed
            /\ calls = <<Call("arrayBuffer", 0, 0), Call("getDocument", 0, 0),
                         Call("setError", 0, 0)>>
            /\ pdf = Null /\ pptx = Null
            /\ progress = 0
            /\ pptxBlob = Null

\* the decoding of an undecodable buffer has failed
C6_Witness ==
    /\ err = Some("getDocument")
    /\ ~Val(arrayBuffer).ok
    /\ error = Some(ConvertFailed)

IsTerminal(c) == c.op \in {"setPptxBlob", "setError"}

\* the number of terminal results the run has produced
Terminals == Len(SelectSeq(calls, IsTerminal))

C8_AbandonStopsRun ==
    [][(abandoned /\ abandoned') =>
            /\ Len(Slides') = Len(Slides)
            /\ ~Made("write")'
            /\ pptxBlob' = Null
            /\ pc' = "done" => err' # Null]_vars

\* C9 as stated: whatever the progress reporter does after a slide has
\* been appended, the run goes on to the next page or to the serializer
\* and no failure is recorded.
C9_ReporterFailureDoesNotAbort ==
    [][pc = "setProgress" =>
            /\ pc' \in {"getPage", "write"}
            /\ err' = Null
            /\ error' = error]_vars

\* the index of the last dot of a name, 0 when there is none
LastDot(name) ==
    IF \E k \in 1..Len(name) : name[k] = "."
    THEN CHOOSE k \in 1..Len(name) :
            /\ name[k] = "."
            /\ \A j \in (k + 1)..Len(name) : name[j] # "."
    ELSE 0

\* the name with its extension, the suffix from the last dot on, replaced
SwapExtension(name, ext) == Sub(name, 1, LastDot(name) - 1) \o ext

\* C10 as stated: the name downloadPptx gives to the download of the deck
\* converted from the selected file is the name of that file with its
\* extension replaced by .pptx.
C10_DownloadNameSwapsExtension ==
    [][(/\ download' # download
        /\ Completed
        /\ Len(Pages) >= 1
        /\ Val(arrayBuffer) = Val(file).buf) =>
            download' = Some(SwapExtension(Val(file).name, DotPptx))]_vars

\* a call op for page p was made before position k of the calls of the run
Before(op, p, k) ==
    \E j \in 1..(k - 1) : calls[j].op = op /\ calls[j].page = p

\* the number of calls op made for page p
Count(op, p) ==
    Cardinality({k \in 1..Len(calls) : calls[k].op = op /\ calls[k].page = p})

\* C11: pages are processed one after the other: the rasterization of page
\* p + 1 is started only after the slide of page p was appended and its
\* progress reported; within a page the rasterization is started before
\* the slide is appended (from the canvas that holds that page) and the
\* slide is appended before the progress is reported; no step of a page is
\* made twice.
C11_PagesInSequence ==
    /\ \A k \in 1..Len(calls) :
        /\ (calls[k].op = "render" /\ calls[k].page > 1) =>
                /\ Before("addSlide", calls[k].page - 1, k)
                /\ Before("setProgress", calls[k].page - 1, k)
        /\ calls[k].op = "addSlide" => Before("render", calls[k].page, k)
        /\ calls[k].op = "setProgress" => Before("addSlide", calls[k].page, k)
        /\ calls[k].op \in {"render", "addSlide", "setProgress"} =>
                Count(calls[k].op, calls[k].page) = 1
    /\ pc \in {"render", "toDataURL", "layout", "addSlide"} =>
            /\ Len(Slides) = i - 1
            /\ Len(Emitted) = i - 1
    /\ pc \in {"toDataURL", "layout", "addSlide"} => canvas.content = i
    /\ pc = "setProgress" => (Len(Slides) = i /\ Len(Emitted) = i - 1)

\* the rasterization of the third page has started
C11_Witness ==
    /\ pc = "render"
    /\ i = 3
    /\ Made("setProgress")

IsLayout(c) == c.op = "defineLayout"

\* the canvas size of the deck of the run
CanvasSize == Val(pptx).layout

\* C12: in a run the canvas size of the deck is set at most once, in the
\* cycle of page 1 and before the first slide is appended; from the first
\* slide on it is the size derived from page 1, and once set it does not
\* change while the later pages are processed.
C12_CanvasSizeSetOnce ==
    /\ [](/\ Len(SelectSeq(calls, IsLayout)) <= 1
          /\ \A k \in 1..Len(calls) :
                /\ calls[k].op = "defineLayout" => calls[k].page = 1
                /\ calls[k].op = "addSlide" => Before("defineLayout", 1, k)
          /\ (pptx # Null /\ ~Made("defineLayout")) =>
                (CanvasSize = NewPptx.layout /\ Len(Slides) = 0)
          /\ (pptx # Null /\ Made("defineLayout")) =>
                /\ CanvasSize.name = "PDF_SIZE"
                /\ CanvasSize.width = Inches(GetViewport(Pages[1]).width)
                /\ CanvasSize.height = Inches(GetViewport(Pages[1]).height))
    /\ [][(pptx # Null /\ pptx' # Null /\ Made("defineLayout")) =>
                Val(pptx').layout = Val(pptx).layout]_vars

\* a page of another size than page 1 was appended to the deck
C12_Witness ==
    /\ Len(Slides) >= 2
    /\ Pages[2] # Pages[1]
    /\ Made("defineLayout")

\* the least integer not below the fraction x
Ceil(x) == (x.num + x.den - 1) \div x.den

\* the run is in the cycle of page k and has computed its viewport
InCycle(k) ==
    /\ i = k
    /\ pc \in {"render", "toDataURL", "layout", "addSlide", "setProgress"}

ThreeLetterPages == <<Letter, Letter, Letter>>

\* the scenario of the 3-page 612 x 792 document: every viewport is
\* 1224 x 1584 pixels, the canvas size is 8.5 x 11 inches, and the finished
\* deck has 3 slides of that size at (0, 0) after the progress 33, 67, 100
LetterScenario ==
    Pages = ThreeLetterPages =>
        /\ (\E k \in 1..3 : InCycle(k)) =>
                /\ FracEq(viewport.width, Frac(1224, 1))
                /\ FracEq(viewport.height, Frac(1584, 1))
        /\ Made("defineLayout") =>
                /\ FracEq(CanvasSize.width, Frac(17, 2))
                /\ FracEq(CanvasSize.height, Frac(11, 1))
        /\ Completed =>
                /\ Len(Slides) = 3
                /\ \A k \in 1..3 :
                    /\ Slides[k].images[1].x = 0
                    /\ Slides[k].images[1].y = 0
                    /\ FracEq(Slides[k].images[1].w, Frac(17, 2))
                    /\ FracEq(Slides[k].images[1].h, Frac(11, 1))
                /\ Emitted = <<33, 67, 100>>

=============================================================================
